---- MODULE Spec2Model ----
(***************************************************************************)
(* Model of the content generation pipeline of social-media-generator:     *)
(* OrchestratorAgent.process and the three agents it drives                *)
(* (ContentAnalysisAgent, TextGenerationAgent, VisualGenerationAgent).     *)
(*                                                                         *)
(* Python values are records tagged with their type, so that None, a str,  *)
(* an int, a list and a dict can be told apart the way the code does.      *)
(* A call either returns a value (Ok) or raises an exception (Raise).      *)
(***************************************************************************)
EXTENDS Integers, Sequences, FiniteSets, TLC

VARIABLES
    input_data,        \* run -> the request dict handed to OrchestratorAgent.process
    client,            \* which agents hold a `client` attribute (shared, set at construction)
    pc,                \* run -> position of process: the await it is suspended at, or its end
    analysis_results,  \* run -> local of process
    text_job,          \* run -> locals of TextGenerationAgent.process while it runs
    text_content,      \* run -> local of process
    visual_job,        \* run -> locals of _generate_visual_content: loop position, visual_content
    outcome,           \* run -> what process gave its caller: a package or an exception
    calls              \* run -> log of the provider calls the run has made

vars == <<input_data, client, pc, analysis_results, text_job, text_content,
          visual_job, outcome, calls>>

----------------------------------------------------------------------------
(* Bounds of the model *)

MaxPosts == 3        \* largest num_posts a request asks for
MaxExisting == 2     \* longest existing_posts list

----------------------------------------------------------------------------
(* Python values *)

None == [type |-> "NoneType"]
PyInt(n) == [type |-> "int", v |-> n]
PyStr(s) == [type |-> "str", v |-> s]
PyList(s) == [type |-> "list", v |-> s]
\* a quotient a / b kept exact; an int n is Num(n, 1)
Num(n, d) == [type |-> "number", num |-> n, den |-> d]
\* a dict over a fixed universe of keys: `keys` are the keys present
PyDict(keys, val) == [type |-> "dict", keys |-> keys, val |-> val]

In(key, d) == key \in d.keys
\* d.get(key, default); on a value that is no dict the attribute lookup fails
Get(d, key, default) == IF In(key, d) THEN d.val[key] ELSE default

Ok(v) == [ok |-> TRUE, value |-> v]
Raise(t, m) == [ok |-> FALSE, exc |-> [type |-> t, msg |-> m]]

NoValue == [type |-> "unset"]

RECURSIVE Sum(_)
Sum(s) == IF s = <<>> THEN 0 ELSE Head(s) + Sum(Tail(s))

Range(s) == {s[i] : i \in 1..Len(s)}

----------------------------------------------------------------------------
(* BaseAgent *)

\* a variant that accepts a dict holding any one of the fields
validate_input_any(data, required_fields) ==
    \E f \in required_fields : In(f, data)

\* missing_fields = [field for field in required_fields if field not in input_data]
validate_input(data, required_fields) ==
    LET missing_fields == {f \in required_fields : ~In(f, data)}
    IN  missing_fields = {}

----------------------------------------------------------------------------
(* Existing posts.  A post is given by what the NLP libraries report of it: *)
(* polarity_scores (in hundredths), the tone markers its lower-cased text   *)
(* contains, its word tokens, the token count of its sentences, its nouns,  *)
(* and its counts of emoji, characters in words, '?' and '!'.               *)

\* "Thanks so much, hope you're happy with the update!"
SamplePost1 ==
    [pos |-> 50, neg |-> 0, neu |-> 50, compound |-> 84,
     markers |-> {"thanks", "happy"},
     tokens |-> <<"thanks", "so", "much", ",", "hope", "you", "'re", "happy",
                  "with", "the", "update", "!">>,
     sent_tokens |-> 12, nouns |-> <<"thanks", "update">>,
     emojis |-> 0, chars |-> 42, questions |-> 0, exclamations |-> 1]

\* "Furthermore, the launch is cool. Cool launch?"
SamplePost2 ==
    [pos |-> 30, neg |-> 0, neu |-> 70, compound |-> 32,
     markers |-> {"furthermore", "cool"},
     tokens |-> <<"furthermore", ",", "the", "launch", "is", "cool", ".",
                  "cool", "launch", "?">>,
     sent_tokens |-> 10, nouns |-> <<"launch", "launch">>,
     emojis |-> 0, chars |-> 36, questions |-> 1, exclamations |-> 0]

\* "Sad update (rocket emoji)"
SamplePost3 ==
    [pos |-> 0, neg |-> 60, neu |-> 40, compound |-> -48,
     markers |-> {},
     tokens |-> <<"sad", "update", "emoji">>,
     sent_tokens |-> 3, nouns |-> <<"update">>,
     emojis |-> 1, chars |-> 10, questions |-> 0, exclamations |-> 0]

SamplePosts == <<SamplePost1, SamplePost2, SamplePost3>>

\* one marker of each tone
ToneWords == <<"therefore", "hey", "hereby", "thanks">>

\* the post "update" followed by the words of ToneWords that are in words,
\* e.g. "update hey thanks": neutral to the sentiment analyser
MarkerPost(words) ==
    LET said == SelectSeq(ToneWords, LAMBDA w : w \in words)
    IN  [pos |-> 0, neg |-> 0, neu |-> 100, compound |-> 0,
         markers |-> words,
         tokens |-> <<"update">> \o said,
         sent_tokens |-> 1 + Len(said), nouns |-> <<"update">>,
         emojis |-> 0, chars |-> 6 + Sum([i \in 1..Len(said) |-> Len(said[i])]),
         questions |-> 0, exclamations |-> 0]

MarkerPosts == {MarkerPost(words) : words \in SUBSET Range(ToneWords)}

\* the first n posts of the brand's feed
Feed(n) == [i \in 1..n |-> SamplePosts[((i - 1) % Len(SamplePosts)) + 1]]

----------------------------------------------------------------------------
(* ContentAnalysisAgent *)

\* tone_markers, in the dict's insertion order
Tones == <<"professional", "casual", "formal", "friendly">>

tone_markers ==
    [professional |-> {"therefore", "consequently", "furthermore", "moreover"},
     casual |-> {"hey", "cool", "awesome", "yeah"},
     formal |-> {"hereby", "accordingly", "pursuant", "whilst"},
     friendly |-> {"thanks", "please", "welcome", "happy"}]

\* Counter(words).most_common(TopK)
TopK == 10

\* `for post in posts` on a value that is no list
NotIterable == Raise("TypeError", "object is not iterable")

\* sum(...) / len(sentiments), once per score; the division raises on no posts
_analyze_overall_sentiment(posts) ==
    IF posts.type # "list" THEN NotIterable
    ELSE LET sentiments == posts.v
             n == Len(sentiments)
             total(k) == Sum([i \in 1..n |-> sentiments[i][k]])
         IN  IF n = 0 THEN Raise("ZeroDivisionError", "division by zero")
             ELSE Ok([positive |-> Num(total("pos"), 100 * n),
                      negative |-> Num(total("neg"), 100 * n),
                      neutral |-> Num(total("neu"), 100 * n),
                      compound |-> Num(total("compound"), 100 * n)])

\* tone_scores[tone] += sum(1 for marker in markers if marker in post_lower),
\* then each score over (sum(tone_scores.values()) or 1)
_analyze_tone(posts) ==
    IF posts.type # "list" THEN NotIterable
    ELSE LET ps == posts.v
             score(tone) ==
                 Sum([i \in 1..Len(ps) |->
                         Cardinality(tone_markers[tone] \cap ps[i].markers)])
             summed == Sum([t \in 1..Len(Tones) |-> score(Tones[t])])
             total_scores == IF summed # 0 THEN summed ELSE 1
         IN  Ok([tone \in Range(Tones) |-> Num(score(tone), total_scores)])

\* nltk.sent_tokenize / nltk.word_tokenize are called once per post: with no
\* tokenizer data installed (nltk_ok false) the first call raises LookupError
_analyze_style(posts, nltk_ok) ==
    IF posts.type # "list" THEN NotIterable
    ELSE LET ps == posts.v
             num_posts == Len(ps)
             total_words == Sum([i \in 1..num_posts |-> Len(ps[i].tokens)])
             unique_words == UNION {Range(ps[i].tokens) : i \in 1..num_posts}
             sentence_total == Sum([i \in 1..num_posts |-> ps[i].sent_tokens])
             emoji_total == Sum([i \in 1..num_posts |-> ps[i].emojis])
         IN  IF num_posts > 0 /\ ~nltk_ok
             THEN Raise("LookupError", "Resource punkt not found")
             ELSE IF num_posts > 0
             THEN Ok([avg_sentence_length |-> Num(sentence_total, num_posts),
                      vocabulary_richness |->
                          IF total_words > 0
                          THEN Num(Cardinality(unique_words), total_words)
                          ELSE Num(0, 1),
                      emoji_usage |-> Num(emoji_total, num_posts)])
             ELSE Ok([avg_sentence_length |-> Num(0, 1),
                      vocabulary_richness |-> Num(0, 1),
                      emoji_usage |-> Num(0, 1)])

RECURSIVE Concat(_)
Concat(ss) == IF ss = <<>> THEN <<>> ELSE Head(ss) \o Concat(Tail(ss))

Count(words, w) == Cardinality({i \in 1..Len(words) : words[i] = w})

\* the distinct words in first-seen order, as a Counter keeps its keys
RECURSIVE FirstSeen(_)
FirstSeen(words) ==
    IF words = <<>> THEN <<>>
    ELSE LET rest == FirstSeen(SubSeq(words, 1, Len(words) - 1))
             w == words[Len(words)]
         IN  IF w \in Range(rest) THEN rest ELSE Append(rest, w)

\* Counter.most_common: by count, largest first; equal counts keep their order
RECURSIVE MostCommon(_, _)
MostCommon(keys, words) ==
    IF keys = <<>> THEN <<>>
    ELSE LET best == CHOOSE i \in 1..Len(keys) :
                        /\ \A j \in 1..Len(keys) :
                               Count(words, keys[j]) <= Count(words, keys[i])
                        /\ \A j \in 1..(i - 1) :
                               Count(words, keys[j]) < Count(words, keys[i])
             others == [j \in 1..(Len(keys) - 1) |->
                           IF j < best THEN keys[j] ELSE keys[j + 1]]
         IN  <<keys[best]>> \o MostCommon(others, words)

_extract_topics(posts, nltk_ok) ==
    IF posts.type # "list" THEN NotIterable
    ELSE LET ps == posts.v
             words == Concat([i \in 1..Len(ps) |-> ps[i].nouns])
             ranked == MostCommon(FirstSeen(words), words)
         IN  IF Len(ps) > 0 /\ ~nltk_ok
             THEN Raise("LookupError", "Resource punkt not found")
             ELSE Ok(PyList(SubSeq(ranked, 1,
                                   IF Len(ranked) < TopK THEN Len(ranked) ELSE TopK)))

_analyze_language_metrics(posts, nltk_ok) ==
    IF posts.type # "list" THEN NotIterable
    ELSE LET ps == posts.v
             num_posts == Len(ps)
             total_words == Sum([i \in 1..num_posts |-> Len(ps[i].tokens)])
             total_chars == Sum([i \in 1..num_posts |-> ps[i].chars])
             questions == Sum([i \in 1..num_posts |-> ps[i].questions])
             exclamations == Sum([i \in 1..num_posts |-> ps[i].exclamations])
         IN  IF num_posts > 0 /\ ~nltk_ok
             THEN Raise("LookupError", "Resource punkt not found")
             ELSE IF num_posts > 0
             THEN Ok([avg_post_length |-> Num(total_words, num_posts),
                      avg_word_length |->
                          IF total_words > 0 THEN Num(total_chars, total_words)
                          ELSE Num(0, 1),
                      question_frequency |-> Num(questions, num_posts),
                      exclamation_frequency |-> Num(exclamations, num_posts)])
             ELSE Ok([avg_post_length |-> Num(0, 1),
                      avg_word_length |-> Num(0, 1),
                      question_frequency |-> Num(0, 1),
                      exclamation_frequency |-> Num(0, 1)])

\* ContentAnalysisAgent.process: the five analyses in the order the dict
\* literal evaluates them; the first one that raises ends the call
ContentAnalysisAgent_process(data, nltk_ok) ==
    IF ~validate_input(data, {"posts"})
    THEN Raise("ValueError", "Invalid input data")
    ELSE LET posts == data.val["posts"]
             sentiment == _analyze_overall_sentiment(posts)
             tone == _analyze_tone(posts)
             style == _analyze_style(posts, nltk_ok)
             topics == _extract_topics(posts, nltk_ok)
             metrics == _analyze_language_metrics(posts, nltk_ok)
         IN  IF ~sentiment.ok THEN sentiment
             ELSE IF ~tone.ok THEN tone
             ELSE IF ~style.ok THEN style
             ELSE IF ~topics.ok THEN topics
             ELSE IF ~metrics.ok THEN metrics
             ELSE Ok([type |-> "dict",
                      overall_sentiment |-> sentiment.value,
                      tone_analysis |-> tone.value,
                      style_characteristics |-> style.value,
                      common_topics |-> topics.value,
                      language_metrics |-> metrics.value])

----------------------------------------------------------------------------
(* TextGenerationAgent *)

\* max(tone_analysis.items(), key=lambda x: x[1])[0]: the first tone, in the
\* dict's order, whose weight no other exceeds
\* a variant whose max keeps the last of the largest items
_get_dominant_tone_last(tone_analysis) ==
    IF DOMAIN tone_analysis = {} THEN "neutral"
    ELSE LET less(a, b) == a.num * b.den < b.num * a.den
             last == CHOOSE i \in 1..Len(Tones) :
                        /\ \A j \in 1..Len(Tones) : ~less(tone_analysis[Tones[i]], tone_analysis[Tones[j]])
                        /\ \A j \in (i + 1)..Len(Tones) : less(tone_analysis[Tones[j]], tone_analysis[Tones[i]])
         IN  Tones[last]

_get_dominant_tone(tone_analysis) ==
    IF DOMAIN tone_analysis = {} THEN "neutral"
    ELSE LET less(a, b) == a.num * b.den < b.num * a.den
             first == CHOOSE i \in 1..Len(Tones) :
                         /\ \A j \in 1..Len(Tones) :
                                ~less(tone_analysis[Tones[i]], tone_analysis[Tones[j]])
                         /\ \A j \in 1..(i - 1) :
                                less(tone_analysis[Tones[j]], tone_analysis[Tones[i]])
         IN  Tones[first]

\* the parts of the prompt the f-string is built from
_create_system_prompt(brand_analysis, post_type, target_platform) ==
    LET topics == brand_analysis.common_topics.v
    IN  [tone |-> _get_dominant_tone(brand_analysis.tone_analysis),
         avg_sentence_length |-> brand_analysis.style_characteristics.avg_sentence_length,
         vocabulary_richness |-> brand_analysis.style_characteristics.vocabulary_richness,
         topics |-> SubSeq(topics, 1, IF Len(topics) < 5 THEN Len(topics) ELSE 5),
         post_type |-> post_type,
         target_platform |-> target_platform]

_generate_mock_post ==
    PyStr("This is a placeholder post. Please provide an OpenAI API key for actual content generation.")

\* what one chat completion call can come to: an API error, or a message
\* whose stripped content is this text (possibly empty)
LLMResponses == {[error |-> TRUE, content |-> ""],
                 [error |-> FALSE, content |-> ""],
                 [error |-> FALSE, content |-> "post a"],
                 [error |-> FALSE, content |-> "post b"]}

\* without a client no call is made, and nothing answers
NoResponse == [error |-> FALSE, content |-> "no call"]

\* a variant that makes the call whether or not a client was set up
_generate_post_unchecked(has_client, response) ==
    IF response.error THEN Raise("APIError", "OpenAI API call failed")
    ELSE Ok(PyStr(response.content))

\* _generate_post: the mock post when self has no client, else the message
\* of the chat completion, or the exception of the call
_generate_post(has_client, response) ==
    IF ~has_client THEN Ok(_generate_mock_post)
    ELSE IF response.error THEN Raise("APIError", "OpenAI API call failed")
    ELSE Ok(PyStr(response.content))

\* truth value of a str
Truthy(post) == post.v # ""

\* a variant whose except clause leaves the loop
TextLoopBreaks(job, result) ==
    IF result.ok
    THEN [job EXCEPT !.i = @ + 1,
                     !.generated_posts =
                         IF Truthy(result.value) THEN Append(@, result.value) ELSE @]
    ELSE [job EXCEPT !.i = job.num_posts]

\* one pass of `for i in range(num_posts)`: a post is kept if truthy, an
\* exception is logged and the loop goes on
TextLoopStep(job, result) ==
    IF result.ok
    THEN [job EXCEPT !.i = @ + 1,
                     !.generated_posts =
                         IF Truthy(result.value) THEN Append(@, result.value) ELSE @]
    ELSE [job EXCEPT !.i = @ + 1]

\* a variant that divides whatever num_posts is
success_rate_unguarded(generated_posts, num_posts) ==
    Num(Len(generated_posts), num_posts)

\* len(generated_posts) / num_posts if num_posts > 0 else 0
success_rate(generated_posts, num_posts) ==
    IF num_posts > 0 THEN Num(Len(generated_posts), num_posts) ELSE Num(0, 1)

\* TextGenerationAgent.process up to its loop: Ok(the locals) or the raise
TextProcessBegin(text_input) ==
    IF ~validate_input(text_input,
                       {"brand_analysis", "num_posts", "post_type", "target_platform"})
    THEN Raise("ValueError", "Invalid input data")
    ELSE LET num_posts == text_input.val["num_posts"]
             post_type == text_input.val["post_type"]
             target_platform == text_input.val["target_platform"]
         IN  IF num_posts.type # "int"
             THEN Raise("TypeError", "object cannot be interpreted as an integer")
             ELSE Ok([active |-> TRUE,
                      system_prompt |->
                          _create_system_prompt(text_input.val["brand_analysis"],
                                                post_type, target_platform),
                      num_posts |-> num_posts.v,
                      post_type |-> post_type,
                      target_platform |-> target_platform,
                      i |-> 0,
                      generated_posts |-> <<>>])

\* the dict TextGenerationAgent.process returns
TextProcessReturn(job) ==
    [type |-> "dict",
     generated_posts |-> job.generated_posts,
     metadata |-> [type |-> "dict",
                   post_type |-> job.post_type,
                   target_platform |-> job.target_platform,
                   success_rate |-> success_rate(job.generated_posts, job.num_posts)]]

NoJob == [active |-> FALSE]

----------------------------------------------------------------------------
(* VisualGenerationAgent *)

Bytes(content, size) == [type |-> "bytes", content |-> content, size |-> size]

\* _generate_mock_image: a 1024x1024 JPEG carrying a failure message
MockImage == Bytes("placeholder", <<1024, 1024>>)

\* what one images.generate call can come to
ImageResponses == {"error", "no_data", "image"}

\* what the imaging library does in one call of process: whether the resize
\* and re-encoding of _process_image work, and whether the placeholder renders
ImagingBehaviours == [resize_ok : BOOLEAN, mock_ok : BOOLEAN]

_create_image_prompt(text, brand_guidelines, style_preferences) ==
    IF brand_guidelines.type # "dict"
    THEN Raise("AttributeError", "object has no attribute 'get'")
    ELSE Ok([subject |-> text,
             brand_style |-> Get(brand_guidelines, "style", PyStr("modern")),
             brand_colors |-> Get(brand_guidelines, "colors", PyList(<<>>)),
             mood |-> Get(style_preferences, "mood", PyStr("neutral"))])

\* a variant with the test for the client inverted
_generate_image_inverted(has_client, response) ==
    IF has_client THEN None ELSE Bytes("raw", <<1024, 1024>>)

\* None without a client, on an API error and on an empty response
_generate_image(has_client, response) ==
    IF ~has_client THEN None
    ELSE IF response = "image" THEN Bytes("raw", <<1024, 1024>>)
    ELSE None

\* resized to platform_specs.get('size', (1024, 1024)) and saved as JPEG;
\* the original bytes if that fails
_process_image(image_data, platform_specs, resize_ok) ==
    IF image_data = None THEN None
    ELSE IF resize_ok
    THEN Bytes("jpeg", Get(platform_specs, "size", <<1024, 1024>>))
    ELSE image_data

\* VisualGenerationAgent.process: Ok(asset), or the raise that escapes when
\* the placeholder cannot be rendered in the except clause either
VisualGenerationAgent_process(visual_input, has_client, response, imaging) ==
    IF ~validate_input(visual_input, {"text_content", "brand_guidelines"})
    THEN Raise("ValueError", "Invalid input data")
    ELSE LET platform_specs == Get(visual_input, "platform_specs", PyDict({}, <<>>))
             image_prompt ==
                 _create_image_prompt(visual_input.val["text_content"],
                                      visual_input.val["brand_guidelines"],
                                      Get(visual_input, "style_preferences",
                                          PyDict({}, <<>>)))
             image_data == _generate_image(has_client, response)
             in_except(error_msg) ==
                 IF imaging.mock_ok
                 THEN Ok([type |-> "dict",
                          image_data |-> MockImage,
                          metadata |-> [error |-> error_msg,
                                        generation_successful |-> FALSE]])
                 ELSE Raise("OSError", "cannot render placeholder")
         IN  IF ~image_prompt.ok
             THEN in_except("Error in image generation: " \o image_prompt.exc.msg)
             ELSE IF image_data = None
             THEN IF imaging.mock_ok
                  THEN Ok([type |-> "dict",
                           image_data |-> MockImage,
                           metadata |->
                               [prompt_used |-> image_prompt.value,
                                platform_specs |-> platform_specs,
                                generation_successful |-> FALSE,
                                error |-> "Image generation failed - using placeholder"]])
                  ELSE in_except("Error in image generation: cannot render placeholder")
             ELSE Ok([type |-> "dict",
                      image_data |-> _process_image(image_data, platform_specs,
                                                    imaging.resize_ok),
                      metadata |-> [prompt_used |-> image_prompt.value,
                                    platform_specs |-> platform_specs,
                                    generation_successful |-> TRUE]])

----------------------------------------------------------------------------
(* OrchestratorAgent *)

required_fields == {"existing_posts", "brand_guidelines", "generation_params", "platform"}

\* load_config: platform_configs of main.py
platform_configs ==
    [instagram |-> PyDict({"size"}, [size |-> <<1080, 1080>>]),
     twitter |-> PyDict({"size"}, [size |-> <<1200, 675>>]),
     linkedin |-> PyDict({"size"}, [size |-> <<1200, 627>>])]

_get_platform_specs(platform) ==
    IF platform.v \in DOMAIN platform_configs
    THEN platform_configs[platform.v]
    ELSE PyDict({}, <<>>)

\* text_metadata is the metadata the text agent returns: it has a post_type
_get_style_preferences(text_metadata) ==
    PyDict({"mood", "style", "composition"},
           [mood |-> text_metadata.post_type,
            style |-> PyStr("modern"),
            composition |-> PyStr("social_media_optimized")])

\* a variant that raises an exception of its own in place of the agent's
_analyze_content_wrapping(existing_posts, nltk_ok) ==
    LET result == ContentAnalysisAgent_process(
                      PyDict({"posts"}, [posts |-> existing_posts]), nltk_ok)
    IN  IF result.ok THEN result
        ELSE Raise("RuntimeError", "Error in content analysis")

\* _analyze_content: the analysis agent's result, its exception re-raised
_analyze_content(existing_posts, nltk_ok) ==
    ContentAnalysisAgent_process(PyDict({"posts"}, [posts |-> existing_posts]), nltk_ok)

\* _generate_text_content, up to the call of the text agent: the text_input dict
text_input_of(analysis, generation_params, platform) ==
    IF generation_params.type # "dict"
    THEN Raise("AttributeError", "object has no attribute 'get'")
    ELSE Ok(PyDict({"brand_analysis", "num_posts", "post_type", "target_platform"},
                   [brand_analysis |-> analysis,
                    num_posts |-> Get(generation_params, "num_posts", PyInt(1)),
                    post_type |-> Get(generation_params, "post_type", PyStr("general")),
                    target_platform |-> platform]))

\* the visual_input dict of one pass of the loop of _generate_visual_content
visual_input_of(post, content, brand_guidelines, platform) ==
    PyDict({"text_content", "brand_guidelines", "style_preferences", "platform_specs"},
           [text_content |-> post,
            brand_guidelines |-> brand_guidelines,
            style_preferences |-> _get_style_preferences(content.metadata),
            platform_specs |-> _get_platform_specs(platform)])

\* a variant that appends nothing when the call raised
VisualAppendDropsFailed(visuals, result) ==
    IF result.ok THEN Append(visuals, result.value) ELSE visuals

\* visual_content.append(visual_result), or append(None) when the call raised
VisualAppend(visuals, result) ==
    IF result.ok THEN Append(visuals, result.value) ELSE Append(visuals, None)

\* zip(text_content['generated_posts'], visual_content)
Zip(texts, visuals) ==
    [i \in 1..(IF Len(texts) < Len(visuals) THEN Len(texts) ELSE Len(visuals)) |->
        <<texts[i], visuals[i]>>]

\* a variant that hands on the payload of every asset, placeholder or not
post_package_keeps_placeholder(text, visual, content, analysis) ==
    [text |-> text,
     visual |-> IF visual # None THEN visual.image_data ELSE None,
     metadata |-> [text_metadata |-> content.metadata,
                   visual_metadata |-> IF visual # None THEN visual.metadata ELSE None,
                   analysis_context |-> analysis]]

\* the post_package dict of one (text, visual) pair
post_package(text, visual, content, analysis) ==
    [text |-> text,
     visual |-> IF visual # None /\ visual.metadata.generation_successful
                THEN visual.image_data ELSE None,
     metadata |-> [text_metadata |-> content.metadata,
                   visual_metadata |-> IF visual # None THEN visual.metadata ELSE None,
                   analysis_context |-> analysis]]

_compile_content_package(content, visuals, analysis) ==
    LET pairs == Zip(content.generated_posts, visuals)
        posts == [i \in 1..Len(pairs) |->
                     post_package(pairs[i][1], pairs[i][2], content, analysis)]
    IN  [type |-> "dict",
         posts |-> posts,
         statistics |->
             [total_posts |-> Len(posts),
              posts_with_visuals |->
                  Cardinality({i \in 1..Len(posts) : posts[i].visual # None}),
              generation_timestamp |-> "utcnow"]]

----------------------------------------------------------------------------
(* Requests and construction *)

Absent == [type |-> "absent"]

ExistingPostsInputs == {None} \cup {PyList(Feed(n)) : n \in 0..MaxExisting}

BrandGuidelinesInputs ==
    {None,
     PyDict({"colors", "style"},
            [colors |-> PyList(<<"#FF5733", "#33FF57">>), style |-> PyStr("modern")])}

GenerationParams(keys, num_posts, post_type) ==
    PyDict(keys, [num_posts |-> num_posts, post_type |-> post_type])

GenerationParamsInputs ==
    {None, GenerationParams({}, None, None),
     GenerationParams({"num_posts"}, PyStr("3"), None)}
    \cup {GenerationParams({"num_posts", "post_type"}, PyInt(n), PyStr("promotional")) :
             n \in (-1)..MaxPosts}

PlatformInputs == {PyStr("instagram"), PyStr("mastodon")}

\* a request dict: a field given as Absent is a key the dict does not have
Request(existing_posts, brand_guidelines, generation_params, platform) ==
    LET given == [existing_posts |-> existing_posts,
                  brand_guidelines |-> brand_guidelines,
                  generation_params |-> generation_params,
                  platform |-> platform]
    IN  PyDict({f \in required_fields : given[f] # Absent},
               [f \in required_fields |-> IF given[f] # Absent THEN given[f] ELSE None])

Requests ==
    {Request(e, b, g, p) : e \in ExistingPostsInputs \cup {Absent},
                           b \in BrandGuidelinesInputs \cup {Absent},
                           g \in GenerationParamsInputs \cup {Absent},
                           p \in PlatformInputs \cup {Absent}}

\* _initialize_llm and _initialize_image_generator read the same OPENAI_API_KEY:
\* each agent has a `client` attribute iff the key is set
Clients(api_key) == [text |-> api_key, visual |-> api_key]

\* nothing called yet: the results of the analysis agent, the number of calls of
\* the text agent, the results of its attempts, the visual agent's calls
NoCalls == [analysis |-> <<>>, text |-> 0, attempts |-> <<>>, visual |-> <<>>]

\* runs that start with requests drawn from requests[r], on one orchestrator
InitFrom(requests) ==
    /\ input_data \in {f \in [DOMAIN requests -> UNION {requests[r] : r \in DOMAIN requests}] :
                          \A r \in DOMAIN requests : f[r] \in requests[r]}
    /\ client \in {Clients(api_key) : api_key \in BOOLEAN}
    /\ pc = [r \in DOMAIN requests |-> "start"]
    /\ analysis_results = [r \in DOMAIN requests |-> NoValue]
    /\ text_job = [r \in DOMAIN requests |-> NoJob]
    /\ text_content = [r \in DOMAIN requests |-> NoValue]
    /\ visual_job = [r \in DOMAIN requests |-> NoJob]
    /\ outcome = [r \in DOMAIN requests |-> NoValue]
    /\ calls = [r \in DOMAIN requests |-> NoCalls]

InitRuns(runs) == InitFrom([r \in runs |-> Requests])

Init == InitRuns({"run"})

\* requests for one post whose existing posts are up to MaxExisting marker posts
ToneRequests ==
    {Request(PyList(posts), None,
             GenerationParams({"num_posts", "post_type"}, PyInt(1), PyStr("promotional")),
             PyStr("instagram")) :
        posts \in UNION {[1..n -> MarkerPosts] : n \in 1..MaxExisting}}

InitTone == InitFrom([r \in {"run"} |-> ToneRequests])

\* two calls of process on one orchestrator, each with a request of its own
ConcurrentRequests ==
    [a |-> {Request(PyList(Feed(1)),
                    PyDict({"colors", "style"},
                           [colors |-> PyList(<<"#FF5733", "#33FF57">>),
                            style |-> PyStr("modern")]),
                    GenerationParams({"num_posts", "post_type"}, PyInt(1),
                                     PyStr("promotional")),
                    PyStr("instagram"))},
     b |-> {Request(PyList(Feed(2)), None,
                    GenerationParams({"num_posts", "post_type"}, PyInt(2),
                                     PyStr("promotional")),
                    PyStr("mastodon"))}]

InitConcurrent == InitFrom(ConcurrentRequests)

\* well-formed requests: posts to analyse and a count of at least one
PendingRequests ==
    {Request(PyList(Feed(n)), None,
             GenerationParams({"num_posts", "post_type"}, PyInt(k), PyStr("promotional")),
             PyStr("instagram")) :
        n \in 1..MaxExisting, k \in 1..MaxPosts}

InitPending == InitFrom([r \in {"run"} |-> PendingRequests])

\* the arguments of a call of _compile_content_package: a text batch of up
\* to MaxPosts posts, and visual entries as the visual loop collects them
\* (None, a placeholder asset, a generated asset), in any number up to MaxPosts
GivenContents ==
    {TextProcessReturn([generated_posts |-> posts, num_posts |-> MaxPosts,
                        post_type |-> PyStr("promotional"),
                        target_platform |-> PyStr("instagram")]) :
        posts \in UNION {[1..n -> {PyStr("post a"), PyStr("post b")}] : n \in 0..MaxPosts}}

GivenVisualEntries ==
    {None} \cup
    {VisualGenerationAgent_process(
         PyDict({"text_content", "brand_guidelines"},
                [text_content |-> PyStr("post a"),
                 brand_guidelines |-> PyDict({}, <<>>)]),
         TRUE, response, [resize_ok |-> TRUE, mock_ok |-> TRUE]).value :
        response \in {"error", "image"}}

GivenVisuals == UNION {[1..n -> GivenVisualEntries] : n \in 0..MaxPosts}

\* a call of _compile_content_package(text_content, visual_content,
\* analysis_results) with a profile of one post
InitCompile ==
    /\ input_data = [r \in {"run"} |->
                        Request(PyList(Feed(1)), PyDict({}, <<>>),
                                GenerationParams({"num_posts", "post_type"},
                                                 PyInt(MaxPosts), PyStr("promotional")),
                                PyStr("instagram"))]
    /\ client \in {Clients(api_key) : api_key \in BOOLEAN}
    /\ pc = [r \in {"run"} |-> "compile"]
    /\ analysis_results = [r \in {"run"} |-> _analyze_content(PyList(Feed(1)), TRUE).value]
    /\ text_job = [r \in {"run"} |-> NoJob]
    /\ text_content \in [{"run"} -> GivenContents]
    /\ visual_job \in {[r \in {"run"} |->
                           [active |-> TRUE, i |-> Len(visuals), visual_content |-> visuals]] :
                        visuals \in GivenVisuals}
    /\ outcome = [r \in {"run"} |-> NoValue]
    /\ calls = [r \in {"run"} |-> NoCalls]

----------------------------------------------------------------------------
(* OrchestratorAgent.process, one run r *)

Field(r, f) == input_data[r].val[f]

\* process ends by raising: its except clause logs and re-raises
Raised(r, result) ==
    /\ pc' = [pc EXCEPT ![r] = "raised"]
    /\ outcome' = [outcome EXCEPT ![r] = result]

\* lines 57-59
Validate(r) ==
    /\ pc[r] = "start"
    /\ IF validate_input(input_data[r], required_fields)
       THEN pc' = [pc EXCEPT ![r] = "analyze"] /\ UNCHANGED outcome
       ELSE Raised(r, Raise("ValueError", "Invalid input data"))
    /\ UNCHANGED <<input_data, client, analysis_results, text_job, text_content,
                   visual_job, calls>>

\* step 1 with the NLP data present or not: what _analyze_content gives
\* process, and what the analysis agent gave _analyze_content
Analyzed(r, nltk_ok) ==
    LET existing_posts == Field(r, "existing_posts")
        result == _analyze_content(existing_posts, nltk_ok)
        provided == ContentAnalysisAgent_process(
                        PyDict({"posts"}, [posts |-> existing_posts]), nltk_ok)
    IN  /\ IF result.ok
           THEN /\ analysis_results' = [analysis_results EXCEPT ![r] = result.value]
                /\ pc' = [pc EXCEPT ![r] = "text"]
                /\ UNCHANGED outcome
           ELSE /\ Raised(r, result)
                /\ UNCHANGED analysis_results
        /\ calls' = [calls EXCEPT ![r].analysis = Append(@, provided)]

\* step 1: await self._analyze_content(...)
AnalyzeContent(r) ==
    /\ pc[r] = "analyze"
    /\ \E nltk_ok \in BOOLEAN : Analyzed(r, nltk_ok)
    /\ UNCHANGED <<input_data, client, text_job, text_content, visual_job>>

\* step 2, to the loop of the text agent: _generate_text_content builds
\* text_input and calls TextGenerationAgent.process
BeginText(r) ==
    /\ pc[r] = "text"
    /\ LET text_input == text_input_of(analysis_results[r],
                                       Field(r, "generation_params"),
                                       Field(r, "platform"))
           begun == TextProcessBegin(text_input.value)
       IN  IF ~text_input.ok
           THEN Raised(r, text_input) /\ UNCHANGED <<text_job, calls>>
           ELSE /\ calls' = [calls EXCEPT ![r].text = @ + 1]
                /\ IF begun.ok
                   THEN /\ text_job' = [text_job EXCEPT ![r] = begun.value]
                        /\ pc' = [pc EXCEPT ![r] = "text_loop"]
                        /\ UNCHANGED outcome
                   ELSE Raised(r, begun) /\ UNCHANGED text_job
    /\ UNCHANGED <<input_data, client, analysis_results, text_content, visual_job>>

\* one pass of the text agent's loop: await self._generate_post(system_prompt)
GeneratePost(r) ==
    /\ pc[r] = "text_loop"
    /\ text_job[r].i < text_job[r].num_posts
    /\ \E response \in (IF client.text THEN LLMResponses ELSE {NoResponse}) :
          LET result == _generate_post(client.text, response)
          IN  /\ text_job' = [text_job EXCEPT ![r] = TextLoopStep(@, result)]
              /\ calls' = [calls EXCEPT ![r].attempts = Append(@, result)]
    /\ UNCHANGED <<input_data, client, pc, analysis_results, text_content,
                   visual_job, outcome>>

\* the text agent returns; step 3 starts with visual_content = []
EndText(r) ==
    /\ pc[r] = "text_loop"
    /\ text_job[r].i >= text_job[r].num_posts
    /\ text_content' = [text_content EXCEPT ![r] = TextProcessReturn(text_job[r])]
    /\ text_job' = [text_job EXCEPT ![r] = NoJob]
    /\ visual_job' = [visual_job EXCEPT ![r] =
                         [active |-> TRUE, i |-> 0, visual_content |-> <<>>]]
    /\ pc' = [pc EXCEPT ![r] = "visual_loop"]
    /\ UNCHANGED <<input_data, client, analysis_results, outcome, calls>>

\* a variant whose visual_content is one list of the orchestrator, which
\* every run in its visual loop appends to
GenerateVisualShared(r) ==
    /\ pc[r] = "visual_loop"
    /\ visual_job[r].i < Len(text_content[r].generated_posts)
    /\ \E response \in (IF client.visual THEN ImageResponses ELSE {"no call"}),
          imaging \in ImagingBehaviours :
          LET post == text_content[r].generated_posts[visual_job[r].i + 1]
              visual_input == visual_input_of(post, text_content[r],
                                              Field(r, "brand_guidelines"),
                                              Field(r, "platform"))
              result == VisualGenerationAgent_process(visual_input, client.visual,
                                                      response, imaging)
          IN  /\ visual_job' =
                     [q \in DOMAIN visual_job |->
                         IF q = r
                         THEN [visual_job[q] EXCEPT
                                  !.i = @ + 1,
                                  !.visual_content = VisualAppend(@, result)]
                         ELSE IF visual_job[q].active
                         THEN [visual_job[q] EXCEPT
                                  !.visual_content = VisualAppend(@, result)]
                         ELSE visual_job[q]]
              /\ calls' = [calls EXCEPT ![r].visual =
                              Append(@, [text_content |-> post, result |-> result])]
    /\ UNCHANGED <<input_data, client, pc, analysis_results, text_job, text_content,
                   outcome>>

\* one pass of the loop of _generate_visual_content:
\* await self.visual_generator.process(visual_input)
GenerateVisual(r) ==
    /\ pc[r] = "visual_loop"
    /\ visual_job[r].i < Len(text_content[r].generated_posts)
    /\ \E response \in (IF client.visual THEN ImageResponses ELSE {"no call"}),
          imaging \in ImagingBehaviours :
          LET post == text_content[r].generated_posts[visual_job[r].i + 1]
              visual_input == visual_input_of(post, text_content[r],
                                              Field(r, "brand_guidelines"),
                                              Field(r, "platform"))
              result == VisualGenerationAgent_process(visual_input, client.visual,
                                                      response, imaging)
          IN  /\ visual_job' = [visual_job EXCEPT
                                   ![r].i = @ + 1,
                                   ![r].visual_content = VisualAppend(@, result)]
              /\ calls' = [calls EXCEPT ![r].visual =
                              Append(@, [text_content |-> post, result |-> result])]
    /\ UNCHANGED <<input_data, client, pc, analysis_results, text_job, text_content,
                   outcome>>

\* a variant whose visual loop returns from inside its first pass
CompileInsideLoop(r) ==
    /\ pc[r] = "visual_loop"
    /\ visual_job[r].i >= (IF Len(text_content[r].generated_posts) = 0 THEN 0 ELSE 1)
    /\ outcome' = [outcome EXCEPT ![r] =
                      Ok(_compile_content_package(text_content[r],
                                                  visual_job[r].visual_content,
                                                  analysis_results[r]))]
    /\ pc' = [pc EXCEPT ![r] = "returned"]
    /\ UNCHANGED <<input_data, client, analysis_results, text_job, text_content,
                   visual_job, calls>>

\* step 4: the loop is over, the package is compiled and returned
Compile(r) ==
    /\ pc[r] = "visual_loop"
    /\ visual_job[r].i >= Len(text_content[r].generated_posts)
    /\ outcome' = [outcome EXCEPT ![r] =
                      Ok(_compile_content_package(text_content[r],
                                                  visual_job[r].visual_content,
                                                  analysis_results[r]))]
    /\ pc' = [pc EXCEPT ![r] = "returned"]
    /\ UNCHANGED <<input_data, client, analysis_results, text_job, text_content,
                   visual_job, calls>>

Next ==
    \/ \E r \in DOMAIN pc : Validate(r)
    \/ \E r \in DOMAIN pc : AnalyzeContent(r)
    \/ \E r \in DOMAIN pc : BeginText(r)
    \/ \E r \in DOMAIN pc : GeneratePost(r)
    \/ \E r \in DOMAIN pc : EndText(r)
    \/ \E r \in DOMAIN pc : GenerateVisual(r)
    \/ \E r \in DOMAIN pc : Compile(r)

Spec == Init /\ [][Next]_vars

\* await loop.run_in_executor(None, lambda: self.client...create/generate(...))
\* of _generate_post and _generate_image when the call of the client never
\* returns: the future is awaited without a timeout, so the coroutine, and
\* with it the run, stays suspended at the await
AwaitPending(r) ==
    /\ \/ /\ pc[r] = "text_loop"
          /\ text_job[r].i < text_job[r].num_posts
          /\ client.text
       \/ /\ pc[r] = "visual_loop"
          /\ visual_job[r].i < Len(text_content[r].generated_posts)
          /\ client.visual
    /\ pc' = [pc EXCEPT ![r] = "awaiting"]
    /\ UNCHANGED <<input_data, client, analysis_results, text_job, text_content,
                   visual_job, outcome, calls>>

\* the steps of the runs, provider calls that never return included
NextPending ==
    \/ Next
    \/ \E r \in DOMAIN pc : AwaitPending(r)

SpecPending == InitPending /\ [][NextPending]_vars

\* _compile_content_package called with the arguments it is given
CompileGiven(r) ==
    /\ pc[r] = "compile"
    /\ outcome' = [outcome EXCEPT ![r] =
                      Ok(_compile_content_package(text_content[r],
                                                  visual_job[r].visual_content,
                                                  analysis_results[r]))]
    /\ pc' = [pc EXCEPT ![r] = "returned"]
    /\ UNCHANGED <<input_data, client, analysis_results, text_job, text_content,
                   visual_job, calls>>

NextCompile == \E r \in DOMAIN pc : CompileGiven(r)

SpecCompile == InitCompile /\ [][NextCompile]_vars

\* the runs over the tone distributions of marker posts
SpecTone == InitTone /\ [][Next]_vars

\* two runs interleaved at every await
SpecConcurrent == InitConcurrent /\ [][Next]_vars

----------------------------------------------------------------------------
(* Properties *)

Runs == DOMAIN pc

Returned(r) == pc[r] = "returned"
Failed(r) == pc[r] = "raised"
Package(r) == outcome[r].value

\* the count the run asks the text agent for
RequestedCount(r) == Get(Field(r, "generation_params"), "num_posts", PyInt(1)).v

\* the visual entry a call leaves in visual_content
EntryOf(call) == IF call.result.ok THEN call.result.value ELSE None

\* the success flag of the visual asset a bundle was built from
BundleVisualSucceeded(bundle) ==
    /\ bundle.metadata.visual_metadata # None
    /\ bundle.metadata.visual_metadata.generation_successful

\* an attempt of the text agent that put a post into the batch
Succeeded(attempt) == attempt.ok /\ Truthy(attempt.value)

ContentsOf(attempts) ==
    LET kept == SelectSeq(attempts, Succeeded)
    IN  [i \in 1..Len(kept) |-> kept[i].value]

\* C1: in every run that returns, the visual sequence has one entry per text
\* item, entry i is what the visual call made for text item i came to, and
\* bundle i of the package pairs text i with that entry.
C1_VisualsAlignedWithTexts ==
    \A r \in Runs :
        Returned(r) =>
            LET texts == text_content[r].generated_posts
                visuals == visual_job[r].visual_content
                made == calls[r].visual
                posts == Package(r).posts
            IN  /\ Len(visuals) = Len(texts)
                /\ Len(made) = Len(texts)
                /\ Len(posts) = Len(texts)
                /\ \A i \in 1..Len(texts) :
                       /\ made[i].text_content = texts[i]
                       /\ visuals[i] = EntryOf(made[i])
                       /\ posts[i].text = texts[i]
                       /\ posts[i].metadata.visual_metadata =
                              (IF visuals[i] # None THEN visuals[i].metadata ELSE None)
                       /\ (visuals[i] # None /\ "prompt_used" \in DOMAIN visuals[i].metadata)
                              => visuals[i].metadata.prompt_used.subject = texts[i]

\* a returned run of three different-looking visual attempts: one raised, one
\* succeeded, one gave a placeholder, over two different texts
C1_Witness ==
    \E r \in Runs :
        /\ Returned(r)
        /\ Len(text_content[r].generated_posts) = 3
        /\ text_content[r].generated_posts[1] # text_content[r].generated_posts[2]
        /\ visual_job[r].visual_content[1] = None
        /\ visual_job[r].visual_content[2] # None
        /\ visual_job[r].visual_content[2].metadata.generation_successful
        /\ visual_job[r].visual_content[3] # None
        /\ ~visual_job[r].visual_content[3].metadata.generation_successful

\* C2 (as claimed, for a generation_params that is a dict): once the analysis
\* has returned a profile the run does not end by raising.
C2_NoFailureAfterAnalysis ==
    \A r \in Runs :
        (/\ analysis_results[r] # NoValue
         /\ Field(r, "generation_params").type = "dict")
        => ~Failed(r)

\* C3 (as claimed): with an empty existing_posts list the analysis does not
\* fail and returns a profile of zero sentiment, zero tone weights, zero style
\* metrics and no topics.
C3_EmptyPostsAnalysed ==
    \A r \in Runs :
        (/\ input_data[r].keys = required_fields
         /\ Field(r, "existing_posts") = PyList(<<>>)
         /\ calls[r].analysis # <<>>)
        => /\ calls[r].analysis[1].ok
           /\ ~Failed(r)
           /\ LET profile == analysis_results[r]
              IN  /\ \A k \in DOMAIN profile.overall_sentiment :
                         profile.overall_sentiment[k].num = 0
                  /\ \A t \in DOMAIN profile.tone_analysis :
                         profile.tone_analysis[t].num = 0
                  /\ \A k \in DOMAIN profile.style_characteristics :
                         profile.style_characteristics[k].num = 0
                  /\ profile.common_topics = PyList(<<>>)

\* C4: a request that lacks one of the four required fields makes process
\* raise ValueError("Invalid input data"), and the run calls no provider.
C4_MissingFieldRejected ==
    \A r \in Runs :
        input_data[r].keys # required_fields =>
            /\ pc[r] \in {"start", "raised"}
            /\ Failed(r) => outcome[r] = Raise("ValueError", "Invalid input data")
            /\ calls[r] = NoCalls

\* a request with three of the four fields has been rejected
C4_Witness ==
    \E r \in Runs :
        /\ Failed(r)
        /\ input_data[r].keys = required_fields \ {"platform"}

\* C5: when the analysis agent raises, process raises that very exception,
\* returns no package, and the run calls neither the text nor the visual agent.
C5_AnalysisFailurePropagated ==
    \A r \in Runs :
        (calls[r].analysis # <<>> /\ ~calls[r].analysis[1].ok) =>
            /\ Failed(r)
            /\ outcome[r] = calls[r].analysis[1]
            /\ calls[r].text = 0
            /\ calls[r].attempts = <<>>
            /\ calls[r].visual = <<>>
            /\ text_content[r] = NoValue

\* the analysis agent failed on a list of posts for lack of tokenizer data
C5_Witness ==
    \E r \in Runs :
        /\ Failed(r)
        /\ calls[r].analysis # <<>>
        /\ ~calls[r].analysis[1].ok
        /\ calls[r].analysis[1].exc.type = "LookupError"

\* C6: in every result of TextGenerationAgent.process, success_rate is the
\* number of posts over num_posts, lies in [0, 1], and is 0, computed without
\* a division by zero, when num_posts is 0.
C6_SuccessRate ==
    \A r \in Runs :
        text_content[r] # NoValue =>
            LET rate == text_content[r].metadata.success_rate
                produced == Len(text_content[r].generated_posts)
                requested == RequestedCount(r)
            IN  /\ rate.den > 0
                /\ requested # 0 => rate.num * requested = produced * rate.den
                /\ requested = 0 => rate.num = 0
                /\ 0 <= rate.num
                /\ rate.num <= rate.den

\* a batch of two posts out of three requested: success_rate 2/3
C6_Witness ==
    \E r \in Runs :
        /\ text_content[r] # NoValue
        /\ RequestedCount(r) = 3
        /\ text_content[r].metadata.success_rate = Num(2, 3)

\* C7: in every returned package total_posts is the number of bundles, and
\* posts_with_visuals the number of bundles whose visual asset is flagged
\* generation_successful.
C7_Statistics ==
    \A r \in Runs :
        Returned(r) =>
            LET posts == Package(r).posts
                statistics == Package(r).statistics
            IN  /\ statistics.total_posts = Len(posts)
                /\ statistics.posts_with_visuals =
                       Cardinality({i \in 1..Len(posts) : BundleVisualSucceeded(posts[i])})

\* a package of three bundles of which one has a visual, one a placeholder
\* asset and one no asset at all
C7_Witness ==
    \E r \in Runs :
        /\ Returned(r)
        /\ Package(r).statistics.total_posts = 3
        /\ Package(r).statistics.posts_with_visuals = 1
        /\ \E i \in 1..3 : Package(r).posts[i].metadata.visual_metadata = None
        /\ \E i \in 1..3 :
               /\ Package(r).posts[i].metadata.visual_metadata # None
               /\ ~Package(r).posts[i].metadata.visual_metadata.generation_successful

\* C8: the text agent makes exactly num_posts attempts, whichever of them
\* fail (an attempt fails when the call raises or yields no text); its batch
\* is the contents of the succeeded attempts in attempt order; and the run
\* makes one visual call per post of the batch.
C8_AttemptsAndVisualCalls ==
    \A r \in Runs :
        LET requested == IF RequestedCount(r) > 0 THEN RequestedCount(r) ELSE 0
        IN  /\ text_job[r].active =>
                   /\ Len(calls[r].attempts) = text_job[r].i
                   /\ text_job[r].i <= requested
                   /\ text_job[r].generated_posts = ContentsOf(calls[r].attempts)
            /\ text_content[r] # NoValue =>
                   /\ Len(calls[r].attempts) = requested
                   /\ text_content[r].generated_posts = ContentsOf(calls[r].attempts)
                   /\ calls[r].text = 1
            /\ Returned(r) =>
                   Len(calls[r].visual) = Len(text_content[r].generated_posts)

\* three posts requested and the second attempt raised: two posts, first and
\* third attempt in that order, success_rate 2/3, two visual calls
C8_Witness ==
    \E r \in Runs :
        /\ Returned(r)
        /\ RequestedCount(r) = 3
        /\ calls[r].attempts = <<Ok(PyStr("post a")),
                                 Raise("APIError", "OpenAI API call failed"),
                                 Ok(PyStr("post b"))>>
        /\ text_content[r].generated_posts = <<PyStr("post a"), PyStr("post b")>>
        /\ text_content[r].metadata.success_rate = Num(2, 3)
        /\ Len(calls[r].visual) = 2

C10_ZeroCountReturnsEmptyPackage ==
    \A r \in Runs :
        (/\ input_data[r].keys = required_fields
         /\ Field(r, "existing_posts").type = "list"
         /\ Field(r, "generation_params").type = "dict"
         /\ Get(Field(r, "generation_params"), "num_posts", PyInt(1)) = PyInt(0)
         /\ pc[r] \in {"returned", "raised"}
         /\ Failed(r) => outcome[r].exc.type # "LookupError")
        => /\ Returned(r)
           /\ calls[r].attempts = <<>>
           /\ calls[r].visual = <<>>
           /\ Package(r).posts = <<>>
           /\ Package(r).statistics.total_posts = 0
           /\ Package(r).statistics.posts_with_visuals = 0

\* the visual calls of all runs, each with the text it was made for and what
\* VisualGenerationAgent.process came to
VisualCalls == UNION {Range(calls[r].visual) : r \in Runs}

\* C11 (as claimed): a visual call that does not succeed still returns: an
\* asset with success false, an error description and the non-empty
\* placeholder as payload; process does not raise, and no asset it returns
\* lacks a payload.
C11_FailedCallReturnsPlaceholder ==
    \A call \in VisualCalls :
        /\ call.result.ok
        /\ call.result.value.image_data # None
        /\ ~call.result.value.metadata.generation_successful =>
               /\ "error" \in DOMAIN call.result.value.metadata
               /\ call.result.value.metadata.error # ""
               /\ call.result.value.image_data = MockImage
               /\ MockImage.content # ""

\* C12: with no text client every attempt of the text agent yields the fixed
\* mock post and none fails, so a batch of N > 0 requested posts has N items,
\* all the mock post, and success_rate 1; an attempt that yields anything
\* else than the mock post (a message of the API or an API error) is made
\* only with a client.
C12_MockPostsWithoutClient ==
    \A r \in Runs :
        /\ ~client.text =>
               /\ \A i \in DOMAIN calls[r].attempts :
                      calls[r].attempts[i] = Ok(_generate_mock_post)
               /\ text_job[r].active =>
                      /\ Len(calls[r].attempts) = text_job[r].i
                      /\ text_job[r].generated_posts =
                             [i \in 1..text_job[r].i |-> _generate_mock_post]
               /\ (text_content[r] # NoValue /\ RequestedCount(r) > 0) =>
                      /\ text_content[r].generated_posts =
                             [i \in 1..RequestedCount(r) |-> _generate_mock_post]
                      /\ text_content[r].metadata.success_rate.num = RequestedCount(r)
                      /\ text_content[r].metadata.success_rate.den = RequestedCount(r)
        /\ (\E i \in DOMAIN calls[r].attempts :
                calls[r].attempts[i] # Ok(_generate_mock_post)) => client.text

\* three posts requested without a client: a batch of three mock posts
C12_Witness ==
    \E r \in Runs :
        /\ ~client.text
        /\ text_content[r] # NoValue
        /\ RequestedCount(r) = 3
        /\ Len(calls[r].attempts) = 3
        /\ Len(text_content[r].generated_posts) = 3

\* weight a is below weight b
Below(a, b) == a.num * b.den < b.num * a.den

\* the tone the text agent put into its system prompt
PromptTone(r) == text_job[r].system_prompt.tone

\* C13: the tone in the text agent's prompt is a label of the analysed tone
\* distribution with no label of greater weight and no label of equal weight
\* before it in the order professional, casual, formal, friendly: the one
\* label these two conditions leave, so the distribution alone determines it.
C13_DominantToneFirstMaximum ==
    \A r \in Runs :
        text_job[r].active =>
            LET weight == analysis_results[r].tone_analysis
                order == <<"professional", "casual", "formal", "friendly">>
            IN  \E i \in 1..4 :
                    /\ PromptTone(r) = order[i]
                    /\ \A j \in 1..4 : ~Below(weight[order[i]], weight[order[j]])
                    /\ \A j \in 1..(i - 1) : Below(weight[order[j]], weight[order[i]])

\* casual and friendly tied at the maximum, above professional: casual
C13_Witness ==
    \E r \in Runs :
        /\ text_job[r].active
        /\ analysis_results[r].tone_analysis["professional"] = Num(1, 5)
        /\ analysis_results[r].tone_analysis["casual"] = Num(2, 5)
        /\ analysis_results[r].tone_analysis["formal"] = Num(0, 5)
        /\ analysis_results[r].tone_analysis["friendly"] = Num(2, 5)
        /\ PromptTone(r) = "casual"

\* no post of the request contains a tone marker
NoMarkers(r) ==
    /\ "existing_posts" \in input_data[r].keys
    /\ Field(r, "existing_posts").type = "list"
    /\ \A i \in 1..Len(Field(r, "existing_posts").v) :
           Field(r, "existing_posts").v[i].markers = {}

\* C14 (as claimed): when no post contains a tone marker, the analysed tone
\* distribution has weight 0 for each of the four labels, and the tone the
\* text agent looks up from it for its prompt is "neutral".
C14_NoMarkersNeutral ==
    \A r \in Runs :
        NoMarkers(r) =>
            /\ analysis_results[r] # NoValue =>
                   \A tone \in Range(Tones) :
                       analysis_results[r].tone_analysis[tone].num = 0
            /\ text_job[r].active => PromptTone(r) = "neutral"

\* C15 (as claimed): a request whose existing_posts is present and None is
\* rejected by the validation of process: the run raises
\* ValueError("Invalid input data") and the analysis agent is not called.
C15_NoneExistingPostsRejected ==
    \A r \in Runs :
        ("existing_posts" \in input_data[r].keys /\ Field(r, "existing_posts") = None) =>
            /\ pc[r] \in {"start", "raised"}
            /\ Failed(r) => outcome[r] = Raise("ValueError", "Invalid input data")
            /\ calls[r].analysis = <<>>

\* the texts the visual agent was called for, in the order of the calls
VisualCallTexts(r) == [i \in 1..Len(calls[r].visual) |-> calls[r].visual[i].text_content]

\* C16: in every step of a run, the analysis agent is called only as the
\* run's first call; the text agent only once, after the one analysis call
\* returned a profile and before any visual call; the visual agent only
\* after the text agent returned, for the text item that follows those
\* already served, with no analysis or text call in the same step; and the
\* run returns its package only with one analysis call, one text call and
\* one visual call per text item, in item order.
C16_CallOrder ==
    [][\A r \in Runs :
          /\ calls'[r].analysis # calls[r].analysis =>
                 /\ calls[r] = NoCalls
                 /\ Len(calls'[r].analysis) = 1
                 /\ calls'[r].text = 0 /\ calls'[r].visual = <<>>
          /\ calls'[r].text # calls[r].text =>
                 /\ calls[r].text = 0 /\ calls'[r].text = 1
                 /\ Len(calls[r].analysis) = 1 /\ calls[r].analysis[1].ok
                 /\ analysis_results[r] = calls[r].analysis[1].value
                 /\ calls[r].visual = <<>>
                 /\ calls'[r].analysis = calls[r].analysis
          /\ calls'[r].attempts # calls[r].attempts =>
                 /\ calls[r].text = 1 /\ text_job[r].active
                 /\ calls[r].visual = <<>> /\ calls'[r].visual = <<>>
          /\ calls'[r].visual # calls[r].visual =>
                 /\ calls[r].text = 1 /\ ~text_job[r].active
                 /\ text_content[r] # NoValue
                 /\ Len(calls'[r].visual) = Len(calls[r].visual) + 1
                 /\ SubSeq(calls'[r].visual, 1, Len(calls[r].visual)) = calls[r].visual
                 /\ Len(calls'[r].visual) <= Len(text_content[r].generated_posts)
                 /\ calls'[r].visual[Len(calls'[r].visual)].text_content =
                        text_content[r].generated_posts[Len(calls'[r].visual)]
                 /\ calls'[r].analysis = calls[r].analysis
                 /\ calls'[r].text = calls[r].text
                 /\ calls'[r].attempts = calls[r].attempts
          /\ (Returned(r)' /\ ~Returned(r)) =>
                 /\ Len(calls[r].analysis) = 1
                 /\ calls[r].text = 1
                 /\ VisualCallTexts(r) = text_content[r].generated_posts
                 /\ calls'[r] = calls[r]
          /\ Returned(r) => (Returned(r)' /\ calls'[r] = calls[r])
      ]_vars

\* a run that has returned after three visual calls
C16_Witness ==
    \E r \in Runs :
        /\ Returned(r)
        /\ Len(calls[r].analysis) = 1
        /\ calls[r].text = 1
        /\ Len(calls[r].visual) = 3

\* all that a run holds: its position, its locals, its outcome and its calls
RunState(r) ==
    <<pc[r], analysis_results[r], text_job[r], text_content[r], visual_job[r],
      outcome[r], calls[r]>>

\* what the run's own visual calls came to, in the order of the calls
OwnVisuals(r) == [i \in 1..Len(calls[r].visual) |-> EntryOf(calls[r].visual[i])]

\* the run's state and package come from its own request and its own calls
BuiltFromOwn(r) ==
    /\ analysis_results[r] # NoValue =>
           /\ analysis_results[r] = calls[r].analysis[1].value
           /\ analysis_results[r].tone_analysis =
                  _analyze_tone(Field(r, "existing_posts")).value
    /\ text_job[r].active =>
           text_job[r].generated_posts = ContentsOf(calls[r].attempts)
    /\ text_content[r] # NoValue =>
           /\ text_content[r].generated_posts = ContentsOf(calls[r].attempts)
           /\ text_content[r].metadata.target_platform = Field(r, "platform")
           /\ text_content[r].metadata.success_rate =
                  Num(Len(ContentsOf(calls[r].attempts)), RequestedCount(r))
    /\ visual_job[r].active =>
           /\ visual_job[r].visual_content = OwnVisuals(r)
           /\ VisualCallTexts(r) =
                  SubSeq(text_content[r].generated_posts, 1, Len(calls[r].visual))
    /\ Returned(r) =>
           LET posts == Package(r).posts
               texts == ContentsOf(calls[r].attempts)
           IN  /\ Len(posts) = Len(texts)
               /\ \A i \in 1..Len(posts) :
                      /\ posts[i].text = texts[i]
                      /\ posts[i].metadata.analysis_context = calls[r].analysis[1].value
                      /\ posts[i].metadata.text_metadata = text_content[r].metadata
                      /\ posts[i].metadata.visual_metadata =
                             (IF OwnVisuals(r)[i] # None
                              THEN OwnVisuals(r)[i].metadata ELSE None)
                      /\ posts[i].visual # None =>
                             posts[i].visual = OwnVisuals(r)[i].image_data
               /\ Package(r).statistics.total_posts = Len(texts)
               /\ Package(r).statistics.posts_with_visuals =
                      Cardinality({i \in 1..Len(texts) :
                                      /\ OwnVisuals(r)[i] # None
                                      /\ OwnVisuals(r)[i].metadata.generation_successful})

\* C17: with two runs of process interleaved on one orchestrator, each run's
\* profile, text batch, visual sequence and returned package and statistics
\* come from its own request and its own provider calls; every step changes
\* the state of one run only, and no step changes the clients the agents
\* were constructed with or a request.
C17_RunsIsolated ==
    /\ [](\A r \in Runs : BuiltFromOwn(r))
    /\ [][/\ client' = client
          /\ input_data' = input_data
          /\ \E r \in Runs : \A q \in Runs \ {r} : RunState(q)' = RunState(q)]_vars

\* both runs are in their visual loops at once, each with one entry of its
\* own in its visual sequence, made for different texts
C17_Witness ==
    /\ Runs = {"a", "b"}
    /\ pc["a"] = "visual_loop" /\ pc["b"] = "visual_loop"
    /\ Len(visual_job["a"].visual_content) = 1
    /\ Len(visual_job["b"].visual_content) = 1
    /\ Len(text_content["b"].generated_posts) = 2
    /\ calls["a"].visual[1].text_content # calls["b"].visual[1].text_content

\* the steps run r can take
Step(r) ==
    \/ Validate(r) \/ AnalyzeContent(r) \/ BeginText(r) \/ GeneratePost(r)
    \/ EndText(r) \/ GenerateVisual(r) \/ Compile(r)

\* C18 (as claimed): a text or visual provider call that does not complete is
\* cut off and the run goes on, so a run that passed analysis never fails and
\* is never left without a step to take before it has returned its package.
C18_PendingCallCutOff ==
    \A r \in Runs :
        analysis_results[r] # NoValue =>
            /\ ~Failed(r)
            /\ Returned(r) \/ ENABLED Step(r)

\* C19 (as claimed): every asset the visual agent returns flagged
\* generation_successful carries a payload re-encoded as JPEG at the size of
\* its platform_specs; none carries the bytes as the API delivered them.
C19_SuccessIsPostProcessed ==
    \A call \in VisualCalls :
        (call.result.ok /\ call.result.value.metadata.generation_successful) =>
            LET asset == call.result.value
            IN  /\ asset.image_data # None
                /\ asset.image_data.content = "jpeg"
                /\ asset.image_data.size =
                       Get(asset.metadata.platform_specs, "size", <<1024, 1024>>)

====
